---------------------------- MODULE Spec2Model ----------------------------
(***************************************************************************)
(* A model of src/tts_batch.py: the script-to-audiobook batch pipeline.    *)
(*                                                                         *)
(* Python strings are modelled as sequences of one-character strings, so   *)
(* that csv splitting, strip(), lower(), upper(), startswith(), slicing,   *)
(* float() and the regular-expression substitutions are computed and not   *)
(* assumed.  A float is a record [k, ms]: k = "num" with ms the value in   *)
(* thousandths of a second, k = "inf" with ms the sign, or k = "nan".      *)
(* A path under OUT_DIR is a record [dir, idx, role, ext] standing for     *)
(* f"{dir}/{idx:05d}_{role}.{ext}".  A file's content is a record of the   *)
(* encoding the tool that wrote it was asked for and of what it holds.     *)
(*                                                                         *)
(* The environment is fixed for one run: whether ffmpeg is on the PATH is  *)
(* chosen in Init and never changes.  Each call of the speech service and  *)
(* each ffmpeg process may succeed or fail.  One step of the model is one   *)
(* row of the script handled to its end, or concat_files.                  *)
(***************************************************************************)
EXTENDS Integers, Sequences, FiniteSets, TLC

VARIABLES
    pc,          \* "loop" (reading rows), "done", "aborted" (exception left main)
    line,        \* the physical line the csv reader last consumed
    row,         \* the loop variable `row` of main (list of cells)
    rowsRead,    \* number of lines consumed
    parts,       \* main's `parts`: the ordered list of segment paths
    idx,         \* main's `idx`
    files,       \* the files under OUT_DIR: path -> content
    calls,       \* history of main's calls of synth_to_file / make_silence
    list_file,   \* OUT_DIR/concat.txt: whether written, and its entries
    final,       \* the final output: whether written, from what, with what arguments
    ffmpegOnPath,\* shutil.which("ffmpeg") is not None
    final_out,   \* extension of sys.argv[2]
    nText,       \* normalize_text study: the current text
    nPrev,       \* normalize_text study: the text before the last application
    nApplied     \* normalize_text study: number of applications so far

vars == <<pc, line, row, rowsRead, parts, idx, files, calls, list_file, final,
          ffmpegOnPath, final_out, nText, nPrev, nApplied>>

runVars == <<pc, line, row, rowsRead, parts, idx, files, calls, list_file, final,
             ffmpegOnPath, final_out>>

normVars == <<nText, nPrev, nApplied>>

---------------------------------------------------------------------------
(* Bounds of the model.                                                    *)

\* Longest script explored, in physical lines.
MaxRows == 2

\* Longest text given to normalize_text, in chunks of NormChunks.
MaxChunks == 4

---------------------------------------------------------------------------
(* Character-level helpers: Python's str methods.                          *)

UpperLetters ==
    <<"A","B","C","D","E","F","G","H","I","J","K","L","M",
      "N","O","P","Q","R","S","T","U","V","W","X","Y","Z">>

LowerLetters ==
    <<"a","b","c","d","e","f","g","h","i","j","k","l","m",
      "n","o","p","q","r","s","t","u","v","w","x","y","z">>

Digits == <<"0","1","2","3","4","5","6","7","8","9">>

Whitespace == {" ", "\t"}

IndexIn(c, table) ==
    IF \E i \in 1..Len(table) : table[i] = c
    THEN CHOOSE i \in 1..Len(table) : table[i] = c
    ELSE 0

Range(table) == { table[i] : i \in 1..Len(table) }

LowerOf == [c \in Range(UpperLetters) |-> LowerLetters[IndexIn(c, UpperLetters)]]

UpperOf == [c \in Range(LowerLetters) |-> UpperLetters[IndexIn(c, LowerLetters)]]

DigitOf == [c \in Range(Digits) |-> IndexIn(c, Digits) - 1]

CharLower(c) == IF c \in DOMAIN LowerOf THEN LowerOf[c] ELSE c

CharUpper(c) == IF c \in DOMAIN UpperOf THEN UpperOf[c] ELSE c

\* str.lower()
Lower(s) == [i \in 1..Len(s) |-> CharLower(s[i])]

\* str.upper()
Upper(s) == [i \in 1..Len(s) |-> CharUpper(s[i])]

\* s[a:b] for 0 <= a and 0 <= b (Python slice, 0-based, end exclusive)
Slice(s, a, b) ==
    LET hi == IF b > Len(s) THEN Len(s) ELSE b
    IN  IF a >= hi THEN <<>> ELSE SubSeq(s, a + 1, hi)

RECURSIVE LStripSet(_, _)
LStripSet(s, set) ==
    IF s # <<>> /\ Head(s) \in set THEN LStripSet(Tail(s), set) ELSE s

RECURSIVE RStripSet(_, _)
RStripSet(s, set) ==
    IF s # <<>> /\ s[Len(s)] \in set
    THEN RStripSet(SubSeq(s, 1, Len(s) - 1), set)
    ELSE s

\* str.strip(chars)
StripSet(s, set) == RStripSet(LStripSet(s, set), set)

\* str.strip()
Strip(s) == StripSet(s, Whitespace)

\* str.startswith(prefix)
StartsWith(s, prefix) ==
    Len(s) >= Len(prefix) /\ SubSeq(s, 1, Len(prefix)) = prefix

\* str.endswith(suffix)
EndsWith(s, suffix) ==
    Len(s) >= Len(suffix) /\ SubSeq(s, Len(s) - Len(suffix) + 1, Len(s)) = suffix

\* a regular expression's \w on the characters of the model
WordChars == Range(UpperLetters) \cup Range(LowerLetters) \cup Range(Digits) \cup {"_"}

IsWordChar(c) == c \in WordChars

---------------------------------------------------------------------------
(* float(s), for the literals the scripts of the model contain: optional   *)
(* surrounding whitespace, optional sign, then digits with an optional     *)
(* fraction, or inf / infinity / nan in any case.  Anything else raises    *)
(* ValueError, modelled as the value ValueError.  (Exponents and digit     *)
(* separators are not parsed; no line of the model has one.  Fractions     *)
(* keep three digits.)                                                     *)

ValueError == [k |-> "ValueError", ms |-> 0]

Num(ms) == [k |-> "num", ms |-> ms]

AllDigits(s) == \A i \in 1..Len(s) : s[i] \in DOMAIN DigitOf

RECURSIVE DigitsValue(_)
DigitsValue(s) ==
    IF s = <<>> THEN 0
    ELSE DigitsValue(SubSeq(s, 1, Len(s) - 1)) * 10 + DigitOf[s[Len(s)]]

\* the fraction digits as thousandths
FractionMs(s) == DigitsValue(Slice(s \o <<"0", "0", "0">>, 0, 3))

UnsignedFloat(s) ==
    LET low == Lower(s)
        dot == IndexIn(".", s)
        ip  == IF dot = 0 THEN s ELSE SubSeq(s, 1, dot - 1)
        fp  == IF dot = 0 THEN <<>> ELSE SubSeq(s, dot + 1, Len(s))
    IN  IF low = <<"i","n","f">> \/ low = <<"i","n","f","i","n","i","t","y">>
        THEN [k |-> "inf", ms |-> 1]
        ELSE IF low = <<"n","a","n">>
        THEN [k |-> "nan", ms |-> 0]
        ELSE IF AllDigits(ip) /\ AllDigits(fp) /\ Len(ip) + Len(fp) > 0
        THEN Num(DigitsValue(ip) * 1000 + FractionMs(fp))
        ELSE ValueError

float(s) ==
    LET t    == Strip(s)
        neg  == t # <<>> /\ Head(t) = "-"
        body == IF t # <<>> /\ Head(t) \in {"-", "+"} THEN Tail(t) ELSE t
        v    == UnsignedFloat(body)
    IN  IF neg /\ v.k \in {"num", "inf"} THEN [v EXCEPT !.ms = 0 - v.ms] ELSE v

---------------------------------------------------------------------------
(* csv.reader(f, delimiter="|"): one physical line to its list of cells.   *)
(* The reader's states are those of CPython's _csv for the default         *)
(* dialect: quotechar '"', doublequote, no skipinitialspace, not strict.   *)

RECURSIVE csv_fields(_, _, _, _, _)
csv_fields(s, i, state, cur, acc) ==
    IF i > Len(s)
    THEN Append(acc, cur)
    ELSE LET c == s[i] IN
         CASE state = "start_field" ->
                IF c = "\"" THEN csv_fields(s, i + 1, "in_quoted", cur, acc)
                ELSE IF c = "|" THEN csv_fields(s, i + 1, "start_field", <<>>, Append(acc, cur))
                ELSE csv_fields(s, i + 1, "in_field", Append(cur, c), acc)
           [] state = "in_field" ->
                IF c = "|" THEN csv_fields(s, i + 1, "start_field", <<>>, Append(acc, cur))
                ELSE csv_fields(s, i + 1, "in_field", Append(cur, c), acc)
           [] state = "in_quoted" ->
                IF c = "\"" THEN csv_fields(s, i + 1, "quote_in_quoted", cur, acc)
                ELSE csv_fields(s, i + 1, "in_quoted", Append(cur, c), acc)
           [] OTHER ->  \* quote_in_quoted
                IF c = "\"" THEN csv_fields(s, i + 1, "in_quoted", Append(cur, c), acc)
                ELSE IF c = "|" THEN csv_fields(s, i + 1, "start_field", <<>>, Append(acc, cur))
                ELSE csv_fields(s, i + 1, "in_field", Append(cur, c), acc)

\* an empty line is the empty row
csv_reader(s) == IF s = <<>> THEN <<>> ELSE csv_fields(s, 1, "start_field", <<>>, <<>>)

---------------------------------------------------------------------------
(* Configuration (tts_batch.py, CONFIG).                                   *)

NARRATOR == <<"N","A","R","R","A","T","O","R">>

VOICE_MAP ==
    (NARRATOR :> "alloy")
    @@ (<<"B","E","C","C","A">> :> "nova")
    @@ (<<"C","H","R","I","S">> :> "verse")
    @@ (<<"W","U">> :> "cedar")
    @@ (<<"B","A","C","K","G","R","O","U","N","D">> :> "marin")
    @@ (<<"C","A","D","O","G","A","N">> :> "ash")
    @@ (<<"A",".","L",".","I",".","E",".">> :> "nova")
    @@ (<<"M","A","R","A">> :> "shimmer")
    @@ (<<"J","O","N","A","H">> :> "cedar")

OUT_DIR == "output_build"

SAMPLE_EXT == <<"w","a","v">>

LOUDNORM == TRUE

\* DEFAULT_INTERLINE_PAUSE = 0.25 s, in thousandths of a second
DEFAULT_INTERLINE_PAUSE == 250

\* the 0.5 s a malformed pause value falls back to, in thousandths
PAUSE_FALLBACK == 500

\* each pattern is \b <literal> \b
PRONUNCIATION_ALIASES ==
    << [literal |-> <<"A",".","L",".","I",".","E",".">>,
        repl    |-> <<"A","l","l","i","e">>] >>

---------------------------------------------------------------------------
(* normalize_text                                                          *)

\* text.replace("  ", " "): what a hand-written collapse would do
RECURSIVE ReplaceDoubleSpaces(_)
ReplaceDoubleSpaces(s) ==
    IF Len(s) >= 2 /\ s[1] \in Whitespace /\ s[2] \in Whitespace
    THEN <<" ">> \o ReplaceDoubleSpaces(Tail(Tail(s)))
    ELSE IF s = <<>> THEN <<>>
    ELSE <<Head(s)>> \o ReplaceDoubleSpaces(Tail(s))

\* re.sub(r"\s+", " ", text)
RECURSIVE CollapseWhitespace(_)
CollapseWhitespace(s) ==
    IF s = <<>> THEN <<>>
    ELSE IF Head(s) \in Whitespace
    THEN <<" ">> \o CollapseWhitespace(LStripSet(s, Whitespace))
    ELSE <<Head(s)>> \o CollapseWhitespace(Tail(s))

\* \b between text[i] and text[i+1] (i = 0 is the start, i = Len the end)
WordBoundary(text, i) ==
    LET before == i >= 1 /\ IsWordChar(text[i])
        after  == i + 1 <= Len(text) /\ IsWordChar(text[i + 1])
    IN  before # after

\* the pattern \b literal \b matches text at position i (1-based)
MatchAt(text, i, literal) ==
    /\ i + Len(literal) - 1 <= Len(text)
    /\ SubSeq(text, i, i + Len(literal) - 1) = literal
    /\ WordBoundary(text, i - 1)
    /\ WordBoundary(text, i + Len(literal) - 1)

\* re.sub(pattern, repl, text) from position i: leftmost, non-overlapping
RECURSIVE re_sub_from(_, _, _)
re_sub_from(alias, text, i) ==
    IF i > Len(text) THEN <<>>
    ELSE IF MatchAt(text, i, alias.literal)
    THEN alias.repl \o re_sub_from(alias, text, i + Len(alias.literal))
    ELSE <<text[i]>> \o re_sub_from(alias, text, i + 1)

\* the loop over PRONUNCIATION_ALIASES.items(), in table order
RECURSIVE apply_aliases(_, _)
apply_aliases(text, k) ==
    IF k > Len(PRONUNCIATION_ALIASES) THEN text
    ELSE apply_aliases(re_sub_from(PRONUNCIATION_ALIASES[k], text, 1), k + 1)

normalize_text(text) == apply_aliases(Strip(CollapseWhitespace(text)), 1)

---------------------------------------------------------------------------
(* Voice resolution: VOICE_MAP.get(speaker.upper(), VOICE_MAP["NARRATOR"]) *)

\* the lookup without upper()
VoiceForCaseSensitive(speaker) ==
    IF speaker \in DOMAIN VOICE_MAP THEN VOICE_MAP[speaker] ELSE VOICE_MAP[NARRATOR]

VoiceFor(speaker) ==
    IF Upper(speaker) \in DOMAIN VOICE_MAP
    THEN VOICE_MAP[Upper(speaker)]
    ELSE VOICE_MAP[NARRATOR]

---------------------------------------------------------------------------
(* Files.                                                                  *)

\* a file name without the index: OUT_DIR / f"{role}.{ext}"
SegPathUnindexed(i, role, ext) == [dir |-> OUT_DIR, idx |-> 0, role |-> role, ext |-> ext]

\* OUT_DIR / f"{idx:05d}_{role}.{ext}"
SegPath(i, role, ext) == [dir |-> OUT_DIR, idx |-> i, role |-> role, ext |-> ext]

\* Path.resolve(): the absolute path of the same file
resolve(p) == [p EXCEPT !.dir = "/cwd/" \o p.dir]

NoSeconds == [k |-> "none", ms |-> 0]

Speech(voice, text) ==
    [kind |-> "speech", voice |-> voice, text |-> text, seconds |-> NoSeconds]

Silence(seconds) ==
    [kind |-> "silence", voice |-> "", text |-> <<>>, seconds |-> seconds]

NoAudio == [kind |-> "none", voice |-> "", text |-> <<>>, seconds |-> NoSeconds]

\* what the speech service streams: MP3 at the service's own rate
Mp3FromService(audio) == [codec |-> "mp3", ar |-> "service", ac |-> "service", audio |-> audio]

\* ffmpeg ... -ar 24000 -ac 1 -c:a pcm_s16le
Pcm24kMono(audio) == [codec |-> "pcm_s16le", ar |-> "24000", ac |-> "1", audio |-> audio]

\* ffmpeg ... -q:a 3 out.mp3 from a 24 kHz mono source
Mp3Vbr(audio) == [codec |-> "mp3", ar |-> "24000", ac |-> "1", audio |-> audio]

\* out.write_bytes(b"")
EmptyFile == [codec |-> "none", ar |-> "none", ac |-> "none", audio |-> NoAudio]

Put(fs, p, content) == [q \in DOMAIN fs \cup {p} |-> IF q = p THEN content ELSE fs[q]]

Unlink(fs, p) == [q \in DOMAIN fs \ {p} |-> fs[q]]

---------------------------------------------------------------------------
(* The lines a script of the model is made of.                             *)

PAUSE_OPEN == <<"[","P","A","U","S","E","=">>

HeaderLine == <<"S","p","e","a","k","e","r","|","T","e","x","t">>

BlankLines == { <<>>, <<" "," ">> }

NoiseLines == { <<"S","p","e","a","k","e","r">>, <<"n","o","t","e">>, <<"|">> }

PauseLines ==
    { PAUSE_OPEN \o <<"2",".","5","]">>,
      PAUSE_OPEN \o <<"1","]">>,
      PAUSE_OPEN \o <<"a","b","c","]">>,
      PAUSE_OPEN \o <<"-","3","]">> }

DialogueLines ==
    { NARRATOR \o <<"|","H","e","l","l","o"," ","w","o","r","l","d">>,
      <<"c","h","r","i","s","|","H","i">>,
      <<"Z","E","B","|","T","e","s","t">>,
      <<"A",".","L",".","I",".","E",".","|"," ","\"","A",".","L",".","I",".","E",".","s","\"">> }

ScriptLines == BlankLines \cup NoiseLines \cup {HeaderLine} \cup PauseLines \cup DialogueLines

---------------------------------------------------------------------------
(* main: the classification of one row, in the order of the code's tests.  *)

RowKind(r) ==
    IF r = <<>> THEN "skip"                                    \* if not row
    ELSE IF Len(r) = 1 /\ Strip(r[1]) = <<>> THEN "skip"       \* blank cell
    ELSE IF Len(r) = 1
    THEN LET cell == Strip(r[1]) IN
         IF StartsWith(Lower(cell), <<"s","p","e","a","k","e","r">>) THEN "skip"
         ELSE IF StartsWith(cell, PAUSE_OPEN) /\ EndsWith(cell, <<"]">>) THEN "pause"
         ELSE "skip"                                           \* single noisy cell
    ELSE IF Strip(r[1]) = <<>> /\ StripSet(Strip(r[2]), {"\""}) = <<>> THEN "skip"
    ELSE "dialogue"

\* try: seconds = float(cell[7:-1])  except Exception: seconds = 0.5
PauseSeconds(r) ==
    LET cell == Strip(r[1])
        v    == float(Slice(cell, 7, Len(cell) - 1))
    IN  IF v = ValueError THEN Num(PAUSE_FALLBACK) ELSE v

\* speaker, text = row[0].strip(), row[1].strip().strip('"')
SpeakerOf(r) == Strip(r[1])

TextOf(r) == StripSet(Strip(r[2]), {"\""})

\* the rows and their kinds, line by line
RowOf == [l \in ScriptLines |-> csv_reader(l)]

KindOf == [l \in ScriptLines |-> RowKind(RowOf[l])]

LinesOfKind(kind) == { l \in ScriptLines : KindOf[l] = kind }

---------------------------------------------------------------------------
(* The functions main calls.  Each gives [raised, path, files]: whether an *)
(* exception left the function, the path it returned, the files after it.  *)
(* apiOk / ffOk say whether the service call / the ffmpeg process of this  *)
(* call succeeds.                                                          *)

NoPath == SegPath(0 - 1, "", "")

Raised(fs) == [raised |-> TRUE, path |-> NoPath, files |-> fs]

Returned(p, fs) == [raised |-> FALSE, path |-> p, files |-> fs]

\* _check_ffmpeg raises RuntimeError when shutil.which("ffmpeg") is None
check_ffmpeg_raises == ~ffmpegOnPath

\* _transcode_to_wav with the failure of ffmpeg swallowed: the MP3 is kept
\* and returned in place of the WAV
transcode_to_wav_lenient(fs, src, dst, ffOk) ==
    IF check_ffmpeg_raises \/ ~ffOk THEN Returned(src, fs)
    ELSE Returned(dst, Unlink(Put(fs, dst, Pcm24kMono(fs[src].audio)), src))

\* _transcode_to_wav: check=True makes a non-zero exit raise; src is
\* unlinked only after ffmpeg succeeded
transcode_to_wav(fs, src, dst, ffOk) ==
    IF check_ffmpeg_raises THEN Raised(fs)
    ELSE IF ~ffOk THEN Raised(fs)
    ELSE Returned(dst, Unlink(Put(fs, dst, Pcm24kMono(fs[src].audio)), src))

synth_to_file(fs, text, voice, i, apiOk, ffOk) ==
    LET t       == normalize_text(text)
        tmp_mp3 == SegPath(i, voice, "mp3")
        fs1     == Put(fs, tmp_mp3, Mp3FromService(Speech(voice, t)))
    IN  IF ~apiOk THEN Raised(fs)
        ELSE IF Lower(SAMPLE_EXT) = <<"m","p","3">> THEN Returned(tmp_mp3, fs1)
        ELSE transcode_to_wav(fs1, tmp_mp3, SegPath(i, voice, "wav"), ffOk)

\* make_silence without its try/except: a failed ffmpeg run raises
make_silence_unguarded(fs, seconds, i, ffOk) ==
    LET out == SegPath(i, "silence", "wav")
    IN  IF check_ffmpeg_raises \/ ~ffOk THEN Raised(fs)
        ELSE Returned(out, Put(fs, out, Pcm24kMono(Silence(seconds))))

\* make_silence: _check_ffmpeg() is called before the try block; inside it
\* any exception of the ffmpeg run is replaced by an empty file
make_silence(fs, seconds, i, ffOk) ==
    LET isMp3 == Lower(SAMPLE_EXT) = <<"m","p","3">>
        out   == SegPath(i, "silence", IF isMp3 THEN "mp3" ELSE "wav")
    IN  IF check_ffmpeg_raises THEN Raised(fs)
        ELSE IF ~ffOk THEN Returned(out, Put(fs, out, EmptyFile))
        ELSE IF isMp3 THEN Returned(out, Put(fs, out, Mp3Vbr(Silence(seconds))))
        ELSE Returned(out, Put(fs, out, Pcm24kMono(Silence(seconds))))

\* The history entry of one call: its arguments, whether the external work
\* it asked for (service call, ffmpeg process) succeeded, and its outcome.
SynthCall(i, voice, text, ok, r) ==
    [fn |-> "synth_to_file", idx |-> i, voice |-> voice, text |-> text,
     seconds |-> NoSeconds, ok |-> ok, raised |-> r.raised, path |-> r.path]

SilenceCall(i, seconds, ok, r) ==
    [fn |-> "make_silence", idx |-> i, voice |-> "", text |-> <<>>,
     seconds |-> seconds, ok |-> ok, raised |-> r.raised, path |-> r.path]

---------------------------------------------------------------------------
(* The run.                                                                *)

NotWritten == [written |-> FALSE, entries |-> <<>>]

NoOutput == [written |-> FALSE, inputs |-> <<>>, args |-> <<>>]

RunInit ==
    /\ pc = "loop"
    /\ line = <<>>
    /\ row = <<>>
    /\ rowsRead = 0
    /\ parts = <<>>
    /\ idx = 0
    /\ files = <<>>
    /\ calls = <<>>
    /\ list_file = NotWritten
    /\ final = NoOutput

NormIdle ==
    /\ nText = <<>>
    /\ nPrev = <<>>
    /\ nApplied = 0

Init ==
    /\ RunInit
    /\ ffmpegOnPath \in BOOLEAN
    /\ final_out \in {"wav", "mp3"}
    /\ NormIdle

\* the csv reader hands main the next row
ReadRow(l) ==
    /\ pc = "loop"
    /\ rowsRead < MaxRows
    /\ line' = l
    /\ row' = RowOf[l]
    /\ rowsRead' = rowsRead + 1

\* a row main passes over with `continue`
SkipRow ==
    \E l \in LinesOfKind("skip") :
        /\ ReadRow(l)
        /\ UNCHANGED <<pc, parts, idx, files, calls, list_file, final,
                       ffmpegOnPath, final_out, normVars>>

\* parts.append(make_silence(seconds, idx)); idx += 1
PauseRow ==
    \E l \in LinesOfKind("pause"), ffOk \in BOOLEAN :
        /\ ReadRow(l)
        /\ LET seconds == PauseSeconds(RowOf[l])
               r       == make_silence(files, seconds, idx, ffOk)
           IN  /\ calls' = Append(calls, SilenceCall(idx, seconds, ffOk, r))
               /\ files' = r.files
               /\ IF r.raised
                  THEN pc' = "aborted" /\ UNCHANGED <<parts, idx>>
                  ELSE /\ parts' = Append(parts, r.path)
                       /\ idx' = idx + 1
                       /\ pc' = pc
        /\ UNCHANGED <<list_file, final, ffmpegOnPath, final_out, normVars>>

\* audio_path = synth_to_file(text, voice, idx); idx += 1
\* parts.append(audio_path)
\* parts.append(make_silence(DEFAULT_INTERLINE_PAUSE, idx)); idx += 1
DialogueRow ==
    \E l \in LinesOfKind("dialogue"), apiOk \in BOOLEAN, tcOk \in BOOLEAN, silOk \in BOOLEAN :
        /\ ReadRow(l)
        /\ LET speaker == SpeakerOf(RowOf[l])
               text    == TextOf(RowOf[l])
               voice   == VoiceFor(speaker)
               a       == synth_to_file(files, text, voice, idx, apiOk, tcOk)
               s       == make_silence(a.files, Num(DEFAULT_INTERLINE_PAUSE), idx + 1, silOk)
           IN  IF a.raised
               THEN /\ pc' = "aborted"
                    /\ files' = a.files
                    /\ calls' = Append(calls, SynthCall(idx, voice, text, apiOk /\ tcOk, a))
                    /\ UNCHANGED <<parts, idx>>
               ELSE /\ files' = s.files
                    /\ calls' = calls \o <<SynthCall(idx, voice, text, apiOk /\ tcOk, a),
                                           SilenceCall(idx + 1, Num(DEFAULT_INTERLINE_PAUSE), silOk, s)>>
                    /\ IF s.raised
                       THEN /\ pc' = "aborted"
                            /\ parts' = Append(parts, a.path)
                            /\ idx' = idx + 1
                       ELSE /\ pc' = pc
                            /\ parts' = parts \o <<a.path, s.path>>
                            /\ idx' = idx + 2
        /\ UNCHANGED <<list_file, final, ffmpegOnPath, final_out, normVars>>

\* the ffmpeg arguments concat_files adds for the output's extension
OutputArgs(ext) ==
    (IF LOUDNORM THEN <<"-af", "loudnorm=I=-16:TP=-1.5:LRA=11">> ELSE <<>>)
    \o (IF ext = "wav" THEN <<"-ar", "24000", "-ac", "1", "-c:a", "pcm_s16le">>
        ELSE IF ext = "mp3" THEN <<"-ar", "24000", "-ac", "1", "-b:a", "128k">>
        ELSE <<>>)

\* the end of the script: concat_files(parts, out_path)
Assemble ==
    \E ffOk \in BOOLEAN :
        /\ pc = "loop"
        /\ IF check_ffmpeg_raises
           THEN pc' = "aborted" /\ UNCHANGED <<list_file, final>>
           ELSE /\ list_file' = [written |-> TRUE,
                                 entries |-> [k \in 1..Len(parts) |-> resolve(parts[k])]]
                /\ IF ffOk
                   THEN /\ pc' = "done"
                        /\ final' = [written |-> TRUE,
                                     inputs  |-> [k \in 1..Len(parts) |-> resolve(parts[k])],
                                     args    |-> OutputArgs(final_out)]
                   ELSE pc' = "aborted" /\ UNCHANGED final
        /\ UNCHANGED <<line, row, rowsRead, parts, idx, files, calls,
                       ffmpegOnPath, final_out, normVars>>

Next == SkipRow \/ PauseRow \/ DialogueRow \/ Assemble

Spec == Init /\ [][Next]_vars

---------------------------------------------------------------------------
(* normalize_text on its own: every text of up to MaxChunks chunks, and    *)
(* normalize_text applied to it twice.                                     *)

NormChunks ==
    { <<"A",".","L",".","I",".","E",".">>, <<"x">>, <<" ">>, <<"\t"," ">>, <<".">>, <<"A">> }

RECURSIVE Texts(_)
Texts(n) ==
    IF n = 0 THEN { <<>> }
    ELSE LET shorter == Texts(n - 1)
         IN  shorter \cup { t \o c : t \in shorter, c \in NormChunks }

NormInit ==
    /\ RunInit
    /\ ffmpegOnPath = TRUE
    /\ final_out = "wav"
    /\ nText \in Texts(MaxChunks)
    /\ nPrev = <<>>
    /\ nApplied = 0

ApplyNormalize ==
    /\ nApplied < 2
    /\ nPrev' = nText
    /\ nText' = normalize_text(nText)
    /\ nApplied' = nApplied + 1
    /\ UNCHANGED runVars

NormNext == ApplyNormalize

NormSpec == NormInit /\ [][NormNext]_vars

---------------------------------------------------------------------------
(* Vocabulary of the properties: the kinds of script line, read off the    *)
(* text of the line (not off main's classification), and the history.      *)

HasDelimiter(l) == \E i \in 1..Len(l) : l[i] = "|"

FirstBar(l) == CHOOSE i \in 1..Len(l) : l[i] = "|" /\ \A j \in 1..(i - 1) : l[j] # "|"

SpeakerField(l) == Strip(SubSeq(l, 1, FirstBar(l) - 1))

TextField(l) == StripSet(Strip(SubSeq(l, FirstBar(l) + 1, Len(l))), {"\""})

\* SPEAKER|text with a speaker and a text
WellFormedDialogue(l) ==
    HasDelimiter(l) /\ SpeakerField(l) # <<>> /\ TextField(l) # <<>>

\* a single cell [PAUSE=<x>]
IsPauseLine(l) ==
    /\ ~HasDelimiter(l)
    /\ StartsWith(Strip(l), PAUSE_OPEN)
    /\ EndsWith(Strip(l), <<"]">>)

\* the <x> of [PAUSE=<x>]
PauseValue(l) == SubSeq(Strip(l), Len(PAUSE_OPEN) + 1, Len(Strip(l)) - 1)

IsBlankLine(l) == Strip(l) = <<>>

\* the header Speaker|Text, or a single cell that starts with "speaker"
IsHeaderRow(l) ==
    \/ Lower(l) = Lower(HeaderLine)
    \/ ~HasDelimiter(l) /\ StartsWith(Lower(Strip(l)), <<"s","p","e","a","k","e","r">>)

\* a single non-empty cell that is no pause directive
IsNoiseCell(l) == ~HasDelimiter(l) /\ ~IsBlankLine(l) /\ ~IsPauseLine(l)

Ignorable(l) == IsBlankLine(l) \/ IsHeaderRow(l) \/ IsNoiseCell(l)

\* this step consumed a line of the script
ReadsLine == rowsRead' = rowsRead + 1

\* the calls this step made
NewCalls == SubSeq(calls', Len(calls) + 1, Len(calls'))

\* the file the segment at position k of parts was asked to hold
CallOfSegment(k) ==
    CHOOSE i \in 1..Len(calls) : calls[i].idx = k - 1 /\ ~calls[i].raised

IsDialogueSegment(p) == p.role # "silence"

Canonical(content) ==
    content.codec = "pcm_s16le" /\ content.ar = "24000" /\ content.ac = "1"

SynthCalls == SelectSeq(calls, LAMBDA c : c.fn = "synth_to_file")

EqualIgnoringCase(a, b) == Lower(a) = Lower(b)

\* the voice the table configures for a label, compared without case
ConfiguredVoice(label) ==
    IF \E key \in DOMAIN VOICE_MAP : EqualIgnoringCase(label, key)
    THEN VOICE_MAP[CHOOSE key \in DOMAIN VOICE_MAP : EqualIgnoringCase(label, key)]
    ELSE "alloy"

---------------------------------------------------------------------------
(* Claim C1: a well-formed dialogue row whose synthesis succeeds appends exactly *)
(* two segments, the dialogue segment in the resolved voice and then one   *)
(* silence segment asked for with 0.25 s; and in every reachable segment   *)
(* list each dialogue segment is directly followed by such a pause.        *)

C1_RowStep ==
    (/\ ReadsLine
     /\ WellFormedDialogue(line')
     /\ Len(NewCalls) >= 1
     /\ ~NewCalls[1].raised)
    => /\ Len(parts') = Len(parts) + 2
       /\ SubSeq(parts', 1, Len(parts)) = parts
       /\ parts'[Len(parts) + 1] = SegPath(idx, VoiceFor(SpeakerField(line')), "wav")
       /\ parts'[Len(parts) + 2] = SegPath(idx + 1, "silence", "wav")
       /\ Len(NewCalls) = 2
       /\ NewCalls[1].fn = "synth_to_file"
       /\ NewCalls[1].path = parts'[Len(parts) + 1]
       /\ NewCalls[2].fn = "make_silence"
       /\ NewCalls[2].seconds = Num(250)
       /\ NewCalls[2].path = parts'[Len(parts) + 2]

C1_EveryDialogueFollowedByPause ==
    \A k \in 1..Len(parts) :
        IsDialogueSegment(parts[k])
        => /\ k + 1 <= Len(parts)
           /\ ~IsDialogueSegment(parts[k + 1])
           /\ calls[CallOfSegment(k + 1)].fn = "make_silence"
           /\ calls[CallOfSegment(k + 1)].seconds = Num(250)

\* C1: every successful dialogue row appends its dialogue segment and then one
\* 0.25 s pause, so every dialogue segment of parts is followed by its pause.
C1_DialogueThenPause == [][C1_RowStep]_vars /\ []C1_EveryDialogueFollowedByPause

\* CHRIS's line was synthesized and its pause follows it
C1_Witness ==
    /\ Len(parts) >= 2
    /\ line = <<"c","h","r","i","s","|","H","i">>
    /\ parts[Len(parts) - 1].role = "verse"
    /\ parts[Len(parts)].role = "silence"
    /\ calls[Len(calls)].seconds = Num(250)

---------------------------------------------------------------------------
(* C2: a blank row, a header row (Speaker|Text) or a single cell that is   *)
(* no pause directive emits nothing: no call, no file, parts and idx       *)
(* unchanged.                                                              *)

C2_IgnorableRowsEmitNothing ==
    [][ (ReadsLine /\ Ignorable(line'))
        => /\ parts' = parts
           /\ idx' = idx
           /\ calls' = calls
           /\ files' = files ]_vars

---------------------------------------------------------------------------
(* C3: a row [PAUSE=<x>] emits exactly one silence segment and nothing     *)
(* else, of <x> seconds, or of 0.5 s when <x> is no number; the run goes   *)
(* on.                                                                     *)

C3_PauseRowEmitsOneSilence ==
    [][ (ReadsLine /\ IsPauseLine(line'))
        => /\ pc' # "aborted"
           /\ parts' = Append(parts, SegPath(idx, "silence", "wav"))
           /\ idx' = idx + 1
           /\ Len(NewCalls) = 1
           /\ NewCalls[1].fn = "make_silence"
           /\ NewCalls[1].seconds =
                 (IF float(PauseValue(line')) = ValueError
                  THEN Num(500)
                  ELSE float(PauseValue(line'))) ]_vars

---------------------------------------------------------------------------
(* C4: idx is the number of segments emitted; the k-th entry of parts is   *)
(* the file created with index k; paths are pairwise distinct; parts, and  *)
(* the play-list written from it, are in the order the calls returned.     *)

C4_IndexAndOrder ==
    /\ idx = Len(parts)
    /\ \A k \in 1..Len(parts) :
          /\ parts[k].idx = k - 1
          /\ parts[k] \in DOMAIN files
          /\ calls[CallOfSegment(k)].path = parts[k]
    /\ \A j, k \in 1..Len(parts) : j # k => parts[j] # parts[k]
    /\ \A j, k \in 1..Len(parts) : j < k => CallOfSegment(j) < CallOfSegment(k)
    /\ list_file.written =>
          /\ Len(list_file.entries) = Len(parts)
          /\ \A k \in 1..Len(parts) :
                /\ list_file.entries[k].idx = k - 1
                /\ list_file.entries[k].role = parts[k].role
                /\ list_file.entries[k].ext = parts[k].ext

\* a play-list of four segments, one of them an empty placeholder
C4_Witness ==
    /\ list_file.written
    /\ Len(parts) = 4
    /\ \E k \in 1..Len(parts) : files[parts[k]] = EmptyFile

---------------------------------------------------------------------------
(* C5: when the service call or the transcode of a dialogue row fails, the *)
(* run is aborted in that step: nothing is appended, the play-list and the *)
(* final output are not written, every file already there stays as it was, *)
(* and an aborted run takes no further step.                               *)

C5_SynthFailureAborts ==
    [][ /\ pc = "aborted" => UNCHANGED vars
        /\ (/\ Len(NewCalls) >= 1
            /\ NewCalls[1].fn = "synth_to_file"
            /\ (~NewCalls[1].ok \/ ~ffmpegOnPath))
           => /\ pc' = "aborted"
              /\ Len(NewCalls) = 1
              /\ NewCalls[1].raised
              /\ parts' = parts
              /\ ~list_file'.written
              /\ ~final'.written
              /\ \A p \in DOMAIN files : p \in DOMAIN files' /\ files'[p] = files[p] ]_vars

\* the second row's synthesis failed; the first row's two segments are on disk
C5_Witness ==
    /\ pc = "aborted"
    /\ Len(calls) >= 1
    /\ calls[Len(calls)].fn = "synth_to_file"
    /\ calls[Len(calls)].raised
    /\ Len(parts) = 2
    /\ \A k \in 1..2 : parts[k] \in DOMAIN files
    /\ ~final.written

---------------------------------------------------------------------------
(* C6: make_silence never aborts the run: whatever fails, ffmpeg exiting   *)
(* non-zero or ffmpeg missing, it returns its path, with an empty file     *)
(* there, and the path is appended.                                        *)

C6_SilenceNeverAborts ==
    \A i \in 1..Len(calls) :
        calls[i].fn = "make_silence"
        => /\ ~calls[i].raised
           /\ \E k \in 1..Len(parts) : parts[k] = calls[i].path
           /\ (~calls[i].ok \/ ~ffmpegOnPath) => files[calls[i].path] = EmptyFile

---------------------------------------------------------------------------
(* C7: when the Assembler has been given the list, every segment of it is  *)
(* a file in the canonical format: 24 kHz, mono, 16-bit PCM.               *)

C7_SegmentsCanonical ==
    list_file.written
    => \A k \in 1..Len(parts) :
          parts[k] \in DOMAIN files /\ Canonical(files[parts[k]])

---------------------------------------------------------------------------
(* C8: the voice of every dialogue row is the voice the table configures   *)
(* for its speaker label compared without regard to case, and the NARRATOR *)
(* voice for a label the table does not have; the lookup never fails.      *)

C8_VoiceResolution ==
    (Len(row) >= 2 /\ WellFormedDialogue(line))
    => /\ Len(SynthCalls) >= 1
       /\ SynthCalls[Len(SynthCalls)].voice = ConfiguredVoice(Strip(row[1]))
       /\ SynthCalls[Len(SynthCalls)].voice \in { VOICE_MAP[key] : key \in DOMAIN VOICE_MAP }

\* "chris" resolved to CHRIS's voice and "ZEB" to the narrator's
C8_Witness ==
    /\ Len(SynthCalls) = 2
    /\ row[1] = <<"Z","E","B">>
    /\ SynthCalls[1].voice = "verse"
    /\ SynthCalls[2].voice = "alloy"

---------------------------------------------------------------------------
(* C9: every duration given to make_silence is a finite number >= 0.       *)

C9_DurationsNonNegative ==
    \A i \in 1..Len(calls) :
        calls[i].fn = "make_silence"
        => calls[i].seconds.k = "num" /\ calls[i].seconds.ms >= 0

---------------------------------------------------------------------------
(* C10: normalize_text is idempotent: applied to its own result it changes *)
(* nothing.                                                                *)

C10_NormalizeIdempotent == nApplied = 2 => nText = nPrev

\* a text whose whitespace was collapsed and whose alias was replaced
C10_Witness ==
    /\ nApplied = 2
    /\ nText = <<"x"," ","A","l","l","i","e","x">>
    /\ nPrev = nText

===========================================================================
